---- MODULE Spec2Model ----
(***************************************************************************)
(* The 3D timeline scene of CHRONOS (src/components/Experience.tsx):       *)
(* layout of the photos along the tunnel, the milestones, the autoplay     *)
(* loop that writes the scroll container, the camera update and the        *)
(* visibility refresh of the frame callback.                               *)
(*                                                                         *)
(* Real numbers are fixed-point integers: lengths in 1/Scale scene units,  *)
(* angles in 1/100 radian, scroll offsets  in 1/ScrollScale pixel, times   *)
(* in milliseconds, autoplay speeds in tenths of the path per second.      *)
(***************************************************************************)
EXTENDS Integers, Sequences, FiniteSets, TLC

VARIABLES
    photos,                 \* prop photos of Experience / SceneContent
    photoTransforms,        \* the memoised photoTransforms of the latest render
    focusedPhotoId,         \* prop focusedPhotoId (NULL or an id)
    isAutoPlaying,          \* prop isAutoPlaying
    autoPlaySpeed,          \* prop autoPlaySpeed, in tenths per second
    isMobile,               \* viewport.width < 10
    focusedPhotoIndexRef,   \* focusedPhotoIndexRef.current (0-based, -1 = none)
    indexEffectDue,         \* a render changed the index effect's dependencies
    autoDeps,               \* dependencies the autoplay effect last ran with
    autoPlayRef,            \* autoPlayRef.current: NULL or a frame-request id
    rafQueue,               \* pending requestAnimationFrame(animate) callbacks
    scrollTop,              \* scrollContainer.scrollTop
    lastTick,               \* what the latest run of animate of the current loop computed
    camera,                 \* state.camera.position
    visibleIndices,         \* state visibleIndices (0-based indices)
    sinceVisibleUpdate,     \* clock.getElapsedTime() - lastVisibleUpdateRef.current
    setterCalls,            \* has setVisibleIndices been called by the latest frame
    refreshed,              \* has the latest frame recomputed the visible set
    repositoryDb,           \* PhotoRepository.db is open (not null)
    store,                  \* object store photos-data: id -> stored record
    updating,               \* update() calls between their getById and their put
    lastResult,             \* what the latest completed repository call returned
    reference,              \* the reference map the repository is compared with
    initialized,            \* StorageManager.initialized
    providerDb,             \* LocalStorageProvider.db is open (not null)
    opening,                \* indexedDB.open requests of the provider in flight
    calls,                  \* StorageManager calls in flight: slot -> position
    initializeCalls,        \* provider.initialize() invocations since construction or dispose
    lastDelegated,          \* outcome of the latest delegated provider operation
    disposed,               \* has a dispose() of the manager completed
    pathArg,                \* the number getPathOffset is called with
    pathResult,             \* what that call returned, NoResult before it returns
    meshes,                 \* the mounted PhotoMesh groups: photo id -> position and effect state
    hookPhotos,             \* useStorage: the photos state
    blobs,                  \* object store photo-blobs: the keys that hold a blob
    tasks,                  \* useStorage: addPhotos, updatePhoto, deletePhoto calls in flight
    called,                 \* per photo id: the useStorage calls made for it, in call order
    searchQuery,            \* App: state searchQuery
    selectedYear,           \* App: state selectedYear
    appFocusedPhotoId       \* App: state focusedPhotoId, NULL for null

vars == <<photos, photoTransforms, focusedPhotoId, isAutoPlaying, autoPlaySpeed, isMobile,
          focusedPhotoIndexRef, indexEffectDue, autoDeps, autoPlayRef, rafQueue,
          scrollTop, lastTick, camera, visibleIndices, sinceVisibleUpdate,
          setterCalls, refreshed,
          repositoryDb, store, updating, lastResult, reference,
          initialized, providerDb, opening, calls, initializeCalls, lastDelegated,
          disposed, pathArg, pathResult, meshes,
          hookPhotos, blobs, tasks, called,
          searchQuery, selectedYear, appFocusedPhotoId>>

\* the state of the scene, of the photo repository and of the storage manager
sceneVars == <<photos, photoTransforms, focusedPhotoId, isAutoPlaying, autoPlaySpeed, isMobile,
               focusedPhotoIndexRef, indexEffectDue, autoDeps, autoPlayRef, rafQueue,
               scrollTop, lastTick, camera, visibleIndices, sinceVisibleUpdate,
               setterCalls, refreshed>>
repositoryVars == <<repositoryDb, store, updating, lastResult, reference>>
storageVars == <<initialized, providerDb, opening, calls, initializeCalls, lastDelegated,
                 disposed>>
pathVars == <<pathArg, pathResult>>
meshVars == <<meshes>>
appVars == <<hookPhotos, blobs, tasks, called>>
uiVars == <<searchQuery, selectedYear, appFocusedPhotoId>>

\* null, for a photo id or a frame-request id (both are positive numbers)
NULL == -1

\* ------------------------------------------------------------------------
\* Units and bounds
\* ------------------------------------------------------------------------
Scale == 10 * 10
ScrollScale == 100 * 100

MaxPhotos == 3
MaxStamp == 2
LongCount == 9

Min(a, b) == IF a <= b THEN a ELSE b
Max(a, b) == IF a >= b THEN a ELSE b
Abs(a) == IF a < 0 THEN -a ELSE a

\* ------------------------------------------------------------------------
\* Program constants
\* ------------------------------------------------------------------------
TUNNEL_DEPTH == 150
SPIRAL_RADIUS == 8
maxSpacing == 15
firstPhotoZ == -10

\* ------------------------------------------------------------------------
\* Math.sin / Math.cos in fixed point (Bhaskara's rational approximation):
\* the argument in 1/100 radian, the result in 1/Scale.
\* ------------------------------------------------------------------------
MathSin(a) ==
    LET pi == 314
        r  == a % (2 * pi)
        h  == IF r <= pi THEN r ELSE r - pi
        p  == h * (pi - h)
        v  == (Scale * 16 * p) \div (5 * pi * pi - 4 * p)
    IN  IF r <= pi THEN v ELSE -v

MathCos(a) == MathSin(a + 157)

\* A JavaScript number: a finite value, Infinity or NaN
Finite(v) == [finite |-> TRUE, nan |-> FALSE, v |-> v]
Infinity == [finite |-> FALSE, nan |-> FALSE, v |-> 0]
NaN == [finite |-> FALSE, nan |-> TRUE, v |-> 0]

\* JavaScript division of a positive numerator: x / 0 is Infinity
Divide(a, b) == IF b = 0 THEN Infinity ELSE Finite(a \div b)

\* Math.min(a, b) for a possibly infinite a and a finite b
MathMin(a, b) == IF a.finite THEN Min(a.v, b) ELSE b

\* ------------------------------------------------------------------------
\* Items
\* ------------------------------------------------------------------------
Ids == 1..MaxPhotos
Stamps == 1..MaxStamp
Months == {"Jan", "Feb"}
Years == {"2024"}

Photo == [id : Ids, timestamp : Stamps, month : Months, year : Years]

HasId(list, id) == \E k \in 1..Len(list) : list[k].id = id

\* the lists of n photos with distinct ids
RECURSIVE ListsOfLen(_)
ListsOfLen(n) ==
    IF n = 0 THEN {<<>>}
    ELSE UNION {{Append(s, p) : p \in {q \in Photo : ~HasId(s, q.id)}} :
                  s \in ListsOfLen(n - 1)}

\* every photo list the application can hand to the scene, up to MaxPhotos
PhotoLists == UNION {ListsOfLen(n) : n \in 0..MaxPhotos}

\* ------------------------------------------------------------------------
\* Layout (pure functions of the photo list)
\* ------------------------------------------------------------------------
\* [...photos].sort((a, b) => b.timestamp - a.timestamp), a stable sort:
\* list[j] comes before list[k] when it is newer, or as old and earlier in
\* the list
ComesBefore(list, j, k) ==
    \/ list[j].timestamp > list[k].timestamp
    \/ list[j].timestamp = list[k].timestamp /\ j < k

SortDesc(list) ==
    [r \in 1..Len(list) |->
        list[CHOOSE k \in 1..Len(list) :
                Cardinality({j \in 1..Len(list) : ComesBefore(list, j, k)}) = r - 1]]

sortedPhotos == SortDesc(photos)

\* dynamicDepth, in scene units
DynamicDepthOf(n) ==
    LET neededDepth == n * maxSpacing
    IN  Max(neededDepth, Min((TUNNEL_DEPTH * 3) \div 2, n * 15))

dynamicDepth == DynamicDepthOf(Len(photos))

\* RawSpacing with the single item sent through the division
RawSpacing_NoFallback(n) ==
    IF n >= 1 THEN Divide(DynamicDepthOf(n) * Scale, n - 1) ELSE Finite(15 * Scale)

\* rawSpacing, in 1/Scale units (or Infinity)
RawSpacing(n) ==
    IF n > 1 THEN Divide(DynamicDepthOf(n) * Scale, n - 1) ELSE Finite(15 * Scale)

\* spacing, in 1/Scale units
Spacing(n) == MathMin(RawSpacing(n), 15 * Scale)

\* PhotoZ with the items laid out toward the viewer
PhotoZ_Forward(i, spacing) == firstPhotoZ * Scale + i * spacing

\* z of the item at 0-based index i
PhotoZ(i, spacing) == firstPhotoZ * Scale - i * spacing

\* n * c for a positive constant c = num / den (an angle in 1/100 radian from
\* a depth in 1/Scale when den = Scale; an amplitude when den = 1)
Times(n, num, den) == IF n.finite THEN Finite((n.v * num) \div den) ELSE n

\* Math.sin and Math.cos: NaN for an argument that is not finite
Sin(n) == IF n.finite THEN Finite(MathSin(n.v)) ELSE NaN
Cos(n) == IF n.finite THEN Finite(MathCos(n.v)) ELSE NaN

\* a + b
Plus(a, b) ==
    IF a.nan \/ b.nan THEN NaN
    ELSE IF a.finite /\ b.finite THEN Finite(a.v + b.v) ELSE Infinity

\* isNaN(n)
isNaN_Never(n) == FALSE
isNaN(n) == n.nan

\* the x and y getPathOffset computes before its isNaN tests
RawPathX(n) == Plus(Times(Sin(Times(n, 5, Scale)), 4, 1), Times(Cos(Times(n, 2, Scale)), 2, 1))
RawPathY(n) == Plus(Times(Cos(Times(n, 4, Scale)), 3, 1), Times(Sin(Times(n, 1, Scale)), 2, 1))

\* getPathOffset for any JavaScript number
PathOffsetOf(n) ==
    LET x == RawPathX(n)
        y == RawPathY(n)
    IN  [x |-> IF isNaN(x) THEN Finite(0) ELSE x,
         y |-> IF isNaN(y) THEN Finite(0) ELSE y]

\* getPathOffset(z) at a finite depth z, where every intermediate value is
\* finite and the isNaN tests pass x and y on
getPathOffset(z) ==
    [x |-> MathSin((z * 5) \div Scale) * 4 + MathCos((z * 2) \div Scale) * 2,
     y |-> MathCos((z * 4) \div Scale) * 3 + MathSin(z \div Scale) * 2]

\* a call of getPathOffset with the number n
CallPathOffset(n) ==
    /\ pathArg' = n
    /\ pathResult' = [x |-> PathOffsetOf(n).x, y |-> PathOffsetOf(n).y, returned |-> TRUE]
    /\ UNCHANGED <<sceneVars, repositoryVars, storageVars, meshVars, appVars, uiVars>>

\* getPathOffset has not been called
NoResult == [x |-> Finite(0), y |-> Finite(0), returned |-> FALSE]

\* photoTransforms: a sequence, element k is the transform of index k - 1
PhotoTransformsOf(sorted) ==
    IF Len(sorted) = 0 THEN <<>>
    ELSE LET spacing == Spacing(Len(sorted))
         IN  [k \in 1..Len(sorted) |->
                LET i      == k - 1
                    angle  == i * 90
                    z      == PhotoZ(i, spacing)
                    offset == getPathOffset(z)
                    radius == (SPIRAL_RADIUS + (IF i % 2 = 0 THEN 3 ELSE -3)) * Scale
                              + MathSin(i * 100) * 2
                IN  [x |-> (MathCos(angle) * radius) \div Scale + offset.x,
                     y |-> (MathSin(angle) * radius) \div Scale + offset.y,
                     z |-> z]]

\* `${p.month} ${p.year}`
GroupKey(p) == p.month \o " " \o p.year

\* MilestoneWalk that never stores the key it emitted
RECURSIVE MilestoneWalk_KeepsLastKey(_, _, _, _)
MilestoneWalk_KeepsLastKey(sorted, k, spacing, acc) ==
    IF k > Len(sorted) THEN acc[1]
    ELSE LET key == GroupKey(sorted[k])
         IN  IF key # acc[2]
             THEN LET z == PhotoZ(k - 1, spacing)
                  IN  MilestoneWalk_KeepsLastKey(sorted, k + 1, spacing,
                        <<Append(acc[1], [label |-> key, z |-> z, offset |-> getPathOffset(z)]),
                          acc[2]>>)
             ELSE MilestoneWalk_KeepsLastKey(sorted, k + 1, spacing, acc)

\* the forEach of milestones: acc is <<items, lastKey>>
RECURSIVE MilestoneWalk(_, _, _, _)
MilestoneWalk(sorted, k, spacing, acc) ==
    IF k > Len(sorted) THEN acc[1]
    ELSE LET key == GroupKey(sorted[k])
         IN  IF key # acc[2]
             THEN LET z == PhotoZ(k - 1, spacing)
                  IN  MilestoneWalk(sorted, k + 1, spacing,
                        <<Append(acc[1], [label |-> key, z |-> z, offset |-> getPathOffset(z)]),
                          key>>)
             ELSE MilestoneWalk(sorted, k + 1, spacing, acc)

MilestonesOf(sorted) ==
    MilestoneWalk(sorted, 1, Spacing(Len(sorted)), <<<<>>, "">>)

milestones == MilestonesOf(sortedPhotos)

\* ------------------------------------------------------------------------
\* Environment of the scene
\* ------------------------------------------------------------------------
\* scrollContainer.scrollHeight - scrollContainer.clientHeight, in pixels
MaxScrollPx == 100
\* the interval between two visibility refreshes, in milliseconds
VisibleInterval == 80
\* the times that pass between two autoplay callbacks, in milliseconds
TickDeltas == {1110, 2000}
\* the time that passes between two frames, in milliseconds
FrameDeltas == {50}
\* the longest time one autoplay loop is followed, in milliseconds
MaxElapsed == 3400
\* the speeds the application passes, in tenths of the path per second
Speeds == {3, 5}
\* the offsets the user scrolls to, in 1/ScrollScale pixel
ScrollPositions == {0, (MaxScrollPx * ScrollScale) \div 2, MaxScrollPx * ScrollScale}

maxScrollTop == MaxScrollPx * ScrollScale

NoTick ==
    [ran |-> FALSE, prevTop |-> 0, top |-> 0, delta |-> 0, speed |-> 0,
     elapsed |-> 0, after |-> 0, fromZero |-> FALSE, disturbed |-> FALSE,
     rescheduled |-> FALSE, autoProp |-> FALSE, focusProp |-> NULL]

\* sortedPhotos.findIndex(p => p.id === id), 0-based, -1 when absent
FindIndex(sorted, id) ==
    IF \E k \in 1..Len(sorted) : sorted[k].id = id
    THEN (CHOOSE k \in 1..Len(sorted) :
            /\ sorted[k].id = id
            /\ \A j \in 1..(k - 1) : sorted[j].id # id) - 1
    ELSE -1

AutoDepsNow ==
    [isAutoPlaying |-> isAutoPlaying, focusedPhotoId |-> focusedPhotoId,
     autoPlaySpeed |-> autoPlaySpeed]

\* a render was committed whose effects have not run yet
EffectsPending == indexEffectDue \/ autoDeps # AutoDepsNow

\* <ScrollControls enabled={focusedPhotoId === null}>
ScrollEnabled == focusedPhotoId = NULL

\* requestAnimationFrame returns an id no pending request and no kept id has
NewRequestId(queue, kept) ==
    CHOOSE n \in 1..(Cardinality(queue) + 2) :
        /\ n # kept
        /\ \A h \in queue : h.id # n

\* a cancelAnimationFrame that cancels nothing
Cancel_Nothing(queue, id) == queue

\* cancelAnimationFrame(id)
Cancel(queue, id) == {h \in queue : h.id # id}

\* ------------------------------------------------------------------------
\* PhotoRepository (src/types.ts): the object store photos-data of IndexedDB
\* ------------------------------------------------------------------------
MaxRepoId == 2
MaxBatch == 2
RepoIds == 1..MaxRepoId
Titles == {"a", "b"}
RepoYears == {"2024", "2025"}
\* the optional property file of a photo: absent, or the uploaded File
Files == {"none", "File"}

\* PhotoData, with the fields the repository operations tell apart
PhotoData == [id : RepoIds, title : Titles, year : RepoYears, file : Files]

\* Partial<PhotoData> as the callers of update pass it (none of them names id)
UpdateFields == {"title", "year", "file"}
FieldValues(k) == IF k = "title" THEN Titles ELSE IF k = "year" THEN RepoYears ELSE Files
Updates == UNION {{u \in [D -> Titles \cup RepoYears \cup Files] : \A k \in D : u[k] \in FieldValues(k)} :
                  D \in SUBSET UpdateFields}

\* what a call returns when there is nothing to return (null, or void)
null == [null |-> TRUE]
EmptyStore == [i \in {} |-> null]

\* const { file, ...serializablePhoto } = photo;  delete updated.file
serializablePhoto(photo) == [photo EXCEPT !.file = "none"]

\* store.put(record): insert, or replace the record of the same key
Put_KeepsExisting(s, record) ==
    [i \in DOMAIN s \cup {record.id} |-> IF i \in DOMAIN s THEN s[i] ELSE record]
Put(s, record) ==
    [i \in DOMAIN s \cup {record.id} |-> IF i = record.id THEN record ELSE s[i]]

\* the forEach of add: one put per item, in the order of the array
RECURSIVE PutAll(_, _)
PutAll(s, items) ==
    IF items = <<>> THEN s
    ELSE PutAll(Put(s, serializablePhoto(Head(items))), Tail(items))

\* store.delete(id)
Delete(s, id) == [i \in DOMAIN s \ {id} |-> s[i]]

\* store.getAll(): the records in ascending order of their key
GetAllOf(s) ==
    [k \in 1..Cardinality(DOMAIN s) |->
        s[CHOOSE i \in DOMAIN s : Cardinality({j \in DOMAIN s : j < i}) = k - 1]]

\* store.get(id), request.result || null
GetByIdOf(s, id) == IF id \in DOMAIN s THEN s[id] ELSE null

\* { ...existing, ...updates }
Merged_UpdatesOnly(existing, updates) ==
    [k \in DOMAIN existing |->
        IF k \in DOMAIN updates THEN updates[k]
        ELSE IF k = "id" THEN existing[k] ELSE CHOOSE v \in FieldValues(k) : TRUE]
Merged(existing, updates) ==
    [k \in DOMAIN existing |-> IF k \in DOMAIN updates THEN updates[k] ELSE existing[k]]

Returned(op, id, value) == [op |-> op, id |-> id, value |-> value, threw |-> FALSE]
\* ensureDB() throws when initialize() has not run: the call rejects
Thrown(op, id) == [op |-> op, id |-> id, value |-> null, threw |-> TRUE]

RepositoryStart ==
    /\ repositoryDb = FALSE
    /\ store = EmptyStore
    /\ updating = {}
    /\ lastResult = Returned("none", NULL, null)
    /\ reference = {}

\* no update() is between its read and its write
Quiet == updating = {}

initialize ==
    /\ ~repositoryDb
    /\ repositoryDb' = TRUE
    /\ lastResult' = Returned("initialize", NULL, null)
    /\ UNCHANGED <<store, updating, reference, sceneVars, storageVars, pathVars, meshVars, appVars, uiVars>>

\* the reference map after add: every item inserted or replaced by id, the
\* last item of an id winning
ReferenceAdd(ref, items) ==
    {r \in ref : \A k \in 1..Len(items) : items[k].id # r.id}
    \cup {serializablePhoto(items[k]) : k \in {j \in 1..Len(items) :
              \A l \in (j + 1)..Len(items) : items[l].id # items[j].id}}

add(items) ==
    /\ IF repositoryDb
       THEN /\ store' = PutAll(store, items)
            /\ reference' = ReferenceAdd(reference, items)
            /\ lastResult' = Returned("add", NULL, null)
       ELSE /\ lastResult' = Thrown("add", NULL)
            /\ UNCHANGED <<store, reference>>
    /\ UNCHANGED <<repositoryDb, updating, sceneVars, storageVars, pathVars, meshVars, appVars, uiVars>>

remove(id) ==
    /\ IF repositoryDb
       THEN /\ store' = Delete(store, id)
            /\ reference' = {r \in reference : r.id # id}
            /\ lastResult' = Returned("remove", id, null)
       ELSE /\ lastResult' = Thrown("remove", id)
            /\ UNCHANGED <<store, reference>>
    /\ UNCHANGED <<repositoryDb, updating, sceneVars, storageVars, pathVars, meshVars, appVars, uiVars>>

clear ==
    /\ IF repositoryDb
       THEN /\ store' = EmptyStore
            /\ reference' = {}
            /\ lastResult' = Returned("clear", NULL, null)
       ELSE /\ lastResult' = Thrown("clear", NULL)
            /\ UNCHANGED <<store, reference>>
    /\ UNCHANGED <<repositoryDb, updating, sceneVars, storageVars, pathVars, meshVars, appVars, uiVars>>

getAll ==
    /\ lastResult' = IF repositoryDb THEN Returned("getAll", NULL, GetAllOf(store))
                     ELSE Thrown("getAll", NULL)
    /\ UNCHANGED <<repositoryDb, store, updating, reference, sceneVars, storageVars, pathVars, meshVars, appVars, uiVars>>

getById(id) ==
    /\ lastResult' = IF repositoryDb THEN Returned("getById", id, GetByIdOf(store, id))
                     ELSE Thrown("getById", id)
    /\ UNCHANGED <<repositoryDb, store, updating, reference, sceneVars, storageVars, pathVars, meshVars, appVars, uiVars>>

\* update, up to the await of getById: a missing id warns and returns
updateRead(id, updates) ==
    /\ IF ~repositoryDb
       THEN lastResult' = Thrown("update", id) /\ UNCHANGED updating
       ELSE IF GetByIdOf(store, id) = null
            THEN lastResult' = Returned("update", id, null) /\ UNCHANGED updating
            ELSE /\ updating' = updating \cup {[id |-> id, existing |-> store[id],
                                                updates |-> updates]}
                 /\ UNCHANGED lastResult
    /\ UNCHANGED <<repositoryDb, store, reference, sceneVars, storageVars, pathVars, meshVars, appVars, uiVars>>

\* update, after the await: the merged record is put
updateWrite(u) ==
    /\ u \in updating
    /\ updating' = updating \ {u}
    /\ IF repositoryDb
       THEN /\ store' = Put(store, serializablePhoto(Merged(u.existing, u.updates)))
            /\ reference' = {IF r.id = u.id THEN serializablePhoto(Merged(r, u.updates))
                                            ELSE r : r \in reference}
            /\ lastResult' = Returned("update", u.id, null)
       ELSE /\ lastResult' = Thrown("update", u.id)
            /\ UNCHANGED <<store, reference>>
    /\ UNCHANGED <<repositoryDb, sceneVars, storageVars, pathVars, meshVars, appVars, uiVars>>

\* PhotoRepository.dispose(): the connection is closed, the store persists
disposeRepository ==
    /\ repositoryDb
    /\ repositoryDb' = FALSE
    /\ lastResult' = Returned("dispose", NULL, null)
    /\ UNCHANGED <<store, updating, reference, sceneVars, storageVars, pathVars, meshVars, appVars, uiVars>>

\* ------------------------------------------------------------------------
\* useStorage (src/hooks/useStorage.ts), local mode: the photos state and the
\* asynchronous storage steps of addPhotos, updatePhoto and deletePhoto
\* ------------------------------------------------------------------------
MaxHookCalls == 3

\* the photos handleUpload adds: a placeholder title, with or without a file
Uploads == {p \in PhotoData : p.title = "a" /\ p.year = "2024"}

\* the updates analysis and editing pass
HookUpdates == {u \in Updates : Cardinality(DOMAIN u) = 1 /\ "file" \notin DOMAIN u /\
                                \A k \in DOMAIN u : u[k] \in {"b", "2025"}}

\* { ...photo, storageKey: blobKey }
WithStorageKey(photo, blobKey) ==
    [k \in DOMAIN photo \cup {"storageKey"} |->
        IF k = "storageKey" THEN blobKey ELSE photo[k]]

\* photo?.storageKey
HasStorageKey(photo) == photo # null /\ "storageKey" \in DOMAIN photo

\* the calls made for id so far
CallsFor(id) == IF id \in DOMAIN called THEN called[id] ELSE <<>>

Record(id, op) ==
    [i \in DOMAIN called \cup {id} |->
        IF i = id THEN Append(CallsFor(id), op) ELSE called[i]]

\* a call in flight: the n-th call made for its id
Task(op, id, pc) == [op |-> op, id |-> id, n |-> Len(CallsFor(id)) + 1, pc |-> pc]

HookStart ==
    /\ hookPhotos = <<>>
    /\ blobs = {}
    /\ tasks = {}
    /\ called = [i \in {} |-> <<>>]
    /\ searchQuery = ""
    /\ selectedYear = "all"
    /\ appFocusedPhotoId = NULL

\* addPhotos([photo]): setPhotos(prev => [...prev, ...newPhotos]), then the
\* call waits for the repository to be ready
addPhotos(photo) ==
    /\ CallsFor(photo.id) = <<>>
    /\ hookPhotos' = Append(hookPhotos, photo)
    /\ tasks' = tasks \cup {Task("addPhotos", photo.id, "ready") @@ [photo |-> photo]}
    /\ called' = Record(photo.id, "addPhotos")
    /\ UNCHANGED <<blobs, sceneVars, repositoryVars, storageVars, pathVars, meshVars>>

\* addPhotos resumes: a photo with a file has its blob saved under
\* photo-<id> first and its record put with that storageKey afterwards, a
\* photo without a file has its record put
addPhotosStep(t) ==
    /\ t \in tasks /\ t.op = "addPhotos"
    /\ repositoryDb
    /\ IF t.pc = "ready" /\ t.photo.file # "none"
       THEN /\ blobs' = blobs \cup {t.id}
            /\ tasks' = (tasks \ {t}) \cup {[t EXCEPT !.pc = "add"]}
            /\ UNCHANGED store
       ELSE /\ store' = Put(store, serializablePhoto(
                          IF t.pc = "add" THEN WithStorageKey(t.photo, t.id)
                          ELSE t.photo))
            /\ tasks' = tasks \ {t}
            /\ UNCHANGED blobs
    /\ UNCHANGED <<hookPhotos, called, repositoryDb, updating, lastResult, reference,
                   sceneVars, storageVars, pathVars, meshVars, uiVars>>

\* updatePhoto(id, updates): setPhotos(prev => prev.map(...)), then the call
\* waits for the repository
updatePhoto(id, updates) ==
    /\ Len(CallsFor(id)) < MaxHookCalls
    /\ hookPhotos' = [k \in 1..Len(hookPhotos) |->
                         IF hookPhotos[k].id = id THEN Merged(hookPhotos[k], updates)
                         ELSE hookPhotos[k]]
    /\ tasks' = tasks \cup {Task("updatePhoto", id, "ready")
                               @@ [updates |-> updates, existing |-> null]}
    /\ called' = Record(id, "updatePhoto")
    /\ UNCHANGED <<blobs, sceneVars, repositoryVars, storageVars, pathVars, meshVars>>

\* updatePhoto resumes, repo.update(id, updates): getById, where a missing
\* id warns and returns, and after that await the put of the merged record
updatePhotoStep(t) ==
    /\ t \in tasks /\ t.op = "updatePhoto"
    /\ repositoryDb
    /\ IF t.pc = "ready"
       THEN /\ tasks' = IF GetByIdOf(store, t.id) = null
                        THEN tasks \ {t}
                        ELSE (tasks \ {t}) \cup
                                 {[t EXCEPT !.pc = "put", !.existing = store[t.id]]}
            /\ UNCHANGED store
       ELSE /\ store' = Put(store, serializablePhoto(Merged(t.existing, t.updates)))
            /\ tasks' = tasks \ {t}
    /\ UNCHANGED <<hookPhotos, blobs, called, repositoryDb, updating, lastResult, reference,
                   sceneVars, storageVars, pathVars, meshVars, uiVars>>

\* prev.filter(p => p.id !== id)
RECURSIVE FilterOut(_, _)
FilterOut(list, id) ==
    IF list = <<>> THEN <<>>
    ELSE IF Head(list).id = id THEN FilterOut(Tail(list), id)
    ELSE <<Head(list)>> \o FilterOut(Tail(list), id)

\* deletePhoto(id): setPhotos(prev => prev.filter(...)), then the call waits
\* for the repository
deletePhoto(id) ==
    /\ Len(CallsFor(id)) < MaxHookCalls
    /\ hookPhotos' = FilterOut(hookPhotos, id)
    /\ tasks' = tasks \cup {Task("deletePhoto", id, "ready") @@ [storageKey |-> NULL]}
    /\ called' = Record(id, "deletePhoto")
    /\ UNCHANGED <<blobs, sceneVars, repositoryVars, storageVars, pathVars, meshVars>>

\* deletePhoto resumes: getById, then deleteBlob of the record's storageKey
\* when the record has one, then remove(id)
deletePhotoStep(t) ==
    /\ t \in tasks /\ t.op = "deletePhoto"
    /\ repositoryDb
    /\ IF t.pc = "ready"
       THEN /\ tasks' = (tasks \ {t}) \cup
                {IF HasStorageKey(GetByIdOf(store, t.id))
                 THEN [t EXCEPT !.pc = "deleteBlob", !.storageKey = store[t.id].storageKey]
                 ELSE [t EXCEPT !.pc = "remove"]}
            /\ UNCHANGED <<store, blobs>>
       ELSE IF t.pc = "deleteBlob"
       THEN /\ blobs' = blobs \ {t.storageKey}
            /\ tasks' = (tasks \ {t}) \cup {[t EXCEPT !.pc = "remove"]}
            /\ UNCHANGED store
       ELSE /\ store' = Delete(store, t.id)
            /\ tasks' = tasks \ {t}
            /\ UNCHANGED blobs
    /\ UNCHANGED <<hookPhotos, called, repositoryDb, updating, lastResult, reference,
                   sceneVars, storageVars, pathVars, meshVars, uiVars>>

\* ------------------------------------------------------------------------
\* App (src/App.tsx): the filters, the focus and the handlers
\* ------------------------------------------------------------------------
\* the search strings typed: nothing, a whole title, a whole year
SearchQueries == {""} \cup Titles \cup RepoYears
YearChoices == {"all"} \cup RepoYears

\* text.includes(query), for a query that is empty or a whole title or year
Includes(text, query) == query = "" \/ query = text

\* photos.filter(p => matchesSearch && matchesYear)
RECURSIVE FilterPhotos(_, _, _)
FilterPhotos(list, query, year) ==
    IF list = <<>> THEN <<>>
    ELSE LET p == Head(list)
             matchesSearch == Includes(p.title, query) \/ Includes(p.year, query)
             matchesYear == year = "all" \/ p.year = year
         IN  (IF matchesSearch /\ matchesYear THEN <<p>> ELSE <<>>)
                 \o FilterPhotos(Tail(list), query, year)

\* the list passed to the scene
filteredPhotos == FilterPhotos(hookPhotos, searchQuery, selectedYear)

\* handleUpload([photo])
handleUpload(photo) ==
    /\ addPhotos(photo)
    /\ UNCHANGED uiVars

\* handleUpdate, handleReAnalyze and the updatePhoto of analyzePhoto
handleUpdate(id, updates) ==
    /\ updatePhoto(id, updates)
    /\ UNCHANGED uiVars

\* handleFocusPhoto: onFocusPhoto(photo.id) of a photo of the scene, or
\* onCloseDetail
handleFocusPhoto(id) ==
    /\ id = NULL \/ HasId(filteredPhotos, id)
    /\ appFocusedPhotoId' = id
    /\ UNCHANGED <<searchQuery, selectedYear, appVars, sceneVars, repositoryVars,
                   storageVars, pathVars, meshVars>>

handleDelete(id) ==
    /\ deletePhoto(id)
    /\ appFocusedPhotoId' = IF appFocusedPhotoId = id THEN NULL ELSE appFocusedPhotoId
    /\ UNCHANGED <<searchQuery, selectedYear>>

handleDeleteFromDetail ==
    /\ appFocusedPhotoId # NULL
    /\ deletePhoto(appFocusedPhotoId)
    /\ appFocusedPhotoId' = NULL
    /\ UNCHANGED <<searchQuery, selectedYear>>

\* onSearchChange={setSearchQuery}
setSearchQuery(query) ==
    /\ searchQuery' = query
    /\ UNCHANGED <<selectedYear, appFocusedPhotoId, appVars, sceneVars, repositoryVars,
                   storageVars, pathVars, meshVars>>

\* onYearChange={setSelectedYear}
setSelectedYear(year) ==
    /\ selectedYear' = year
    /\ UNCHANGED <<searchQuery, appFocusedPhotoId, appVars, sceneVars, repositoryVars,
                   storageVars, pathVars, meshVars>>

\* ------------------------------------------------------------------------
\* StorageManager over LocalStorageProvider (src/services/storage)
\* ------------------------------------------------------------------------
MaxInFlight == 2
Slots == 1..MaxInFlight
DisposeSlot == 0
FileOps == {"uploadFile", "deleteFile", "getFileUrl", "listFiles", "fileExists", "getFileBlob"}

\* a call of the manager: which operation, where it stands, and whether it
\* was issued while initialized was false
Idle == [op |-> "none", pc |-> "idle", lazy |-> FALSE]
NoDelegation == [op |-> "none", lazy |-> FALSE, threw |-> FALSE]

StorageStart ==
    /\ initialized = FALSE
    /\ providerDb = FALSE
    /\ opening = 0
    /\ calls = [slot \in Slots \cup {DisposeSlot} |-> Idle]
    /\ initializeCalls = 0
    /\ lastDelegated = NoDelegation
    /\ disposed = FALSE

\* no call of the manager is in flight
StorageIdle == \A slot \in Slots \cup {DisposeSlot} : calls[slot].pc = "idle"

\* ensureInitialized: if (!this.initialized)
NeedsInitialize_Never == FALSE
NeedsInitialize == ~initialized

\* a file operation is called: await this.ensureInitialized(), which invokes
\* provider.initialize() when the manager is not initialized; the provider
\* returns at once when its db is open and opens the database otherwise
Issue(slot, op) ==
    /\ calls[slot].pc = "idle"
    /\ IF NeedsInitialize
       THEN /\ calls' = [calls EXCEPT ![slot] = [op |-> op, pc |-> "initialize",
                                                 lazy |-> ~initialized]]
            /\ initializeCalls' = initializeCalls + 1
            /\ opening' = IF providerDb THEN opening ELSE opening + 1
       ELSE /\ calls' = [calls EXCEPT ![slot] = [op |-> op, pc |-> "delegate",
                                                 lazy |-> ~initialized]]
            /\ UNCHANGED <<initializeCalls, opening>>
    /\ UNCHANGED <<initialized, providerDb, lastDelegated, disposed, sceneVars, repositoryVars, pathVars, meshVars, appVars, uiVars>>

\* provider.initialize() of the call resolves (request.onsuccess sets db),
\* then ensureInitialized sets initialized
InitializeDone(slot) ==
    /\ calls[slot].pc = "initialize"
    /\ providerDb' = TRUE
    /\ opening' = IF opening > 0 THEN opening - 1 ELSE 0
    /\ initialized' = TRUE
    /\ calls' = [calls EXCEPT ![slot].pc = "delegate"]
    /\ UNCHANGED <<initializeCalls, lastDelegated, disposed, sceneVars, repositoryVars, pathVars, meshVars, appVars, uiVars>>

\* return this.provider.<op>(...): the provider's ensureDB() throws when its
\* db is null
Delegate(slot) ==
    /\ calls[slot].pc = "delegate"
    /\ lastDelegated' = [op |-> calls[slot].op, lazy |-> calls[slot].lazy,
                         threw |-> ~providerDb]
    /\ calls' = [calls EXCEPT ![slot] = Idle]
    /\ UNCHANGED <<initialized, providerDb, opening, initializeCalls, disposed,
                   sceneVars, repositoryVars, pathVars, meshVars, appVars, uiVars>>

\* StorageManager.dispose(), up to its await: provider.dispose() closes the
\* db; nothing happens when the manager is not initialized
DisposeCall ==
    /\ calls[DisposeSlot].pc = "idle"
    /\ initialized
    /\ providerDb' = FALSE
    /\ calls' = [calls EXCEPT ![DisposeSlot] = [op |-> "dispose", pc |-> "dispose",
                                                lazy |-> FALSE]]
    /\ lastDelegated' = [op |-> "dispose", lazy |-> FALSE, threw |-> FALSE]
    /\ UNCHANGED <<initialized, opening, initializeCalls, disposed,
                   sceneVars, repositoryVars, pathVars, meshVars, appVars, uiVars>>

\* StorageManager.dispose(), after the await: this.initialized = false
DisposeDone ==
    /\ calls[DisposeSlot].pc = "dispose"
    /\ initialized' = FALSE
    /\ initializeCalls' = 0
    /\ disposed' = TRUE
    /\ calls' = [calls EXCEPT ![DisposeSlot] = Idle]
    /\ UNCHANGED <<providerDb, opening, lastDelegated, sceneVars, repositoryVars, pathVars, meshVars, appVars, uiVars>>

\* ------------------------------------------------------------------------
\* PhotoMesh: the group each photo is rendered as
\* ------------------------------------------------------------------------
\* the position prop the scene passes for photo id: the transform at the
\* photo's index in the sorted list
PositionOf(sorted, transforms, id) == transforms[FindIndex(sorted, id) + 1]

\* the position prop of the committed render
position(id) == PositionOf(sortedPhotos, photoTransforms, id)

\* the visible prop of the committed render
visible(id) == FindIndex(sortedPhotos, id) \in visibleIndices

\* a group as it is created: at its position prop, its passive effects due
\* (moved: the latest commit changed position[2] of the mounted group)
Mounted(prop) == [y |-> prop.y, z |-> prop.z, due |-> TRUE, moved |-> FALSE]

\* the commit of a re-render of a mounted group: a position prop that
\* differs from the previous one is applied to the group, and the z effect
\* is due when position[2] changed
CommitMesh(mesh, prev, prop) ==
    IF prop.x = prev.x /\ prop.y = prev.y /\ prop.z = prev.z
    THEN mesh
    ELSE [y |-> prop.y, z |-> prop.z,
          due |-> mesh.due \/ prop.z # prev.z,
          moved |-> prop.z # prev.z]

\* the groups after the render of list is committed: one per photo, keyed by
\* photo.id
CommitMeshes(list) ==
    LET sorted == SortDesc(list)
        transforms == PhotoTransformsOf(sorted)
        prevSorted == sortedPhotos
    IN  [id \in {list[k].id : k \in 1..Len(list)} |->
            IF id \in DOMAIN meshes
            THEN CommitMesh(meshes[id], PositionOf(prevSorted, photoTransforms, id),
                            PositionOf(sorted, transforms, id))
            ELSE Mounted(PositionOf(sorted, transforms, id))]

\* useEffect(() => { meshRef.current.position.z = position[2] }, [position[2]])
ZEffect(mesh, prop) ==
    IF mesh.due
    THEN [mesh EXCEPT !.z = prop.z, !.due = FALSE, !.moved = FALSE]
    ELSE mesh

\* the idle offsets Math.sin(...) * 0.4 is sampled at: 0 and 0.02
AnimY == {0, (2 * Scale) \div 100}

\* THREE.MathUtils.lerp(from, to, 0.1), rounded away from from
MeshLerp(from, to) ==
    IF to >= from
    THEN from + ((to - from) * 10 + 99) \div 100
    ELSE from - ((from - to) * 10 + 99) \div 100

\* a frame callback that lets the idle animation move the depth as well
MeshFrame_AnimatesDepth(mesh, prop, isFocused, animY) ==
    IF isFocused
    THEN [mesh EXCEPT !.y = MeshLerp(mesh.y, prop.y), !.z = prop.z]
    ELSE [mesh EXCEPT !.y = prop.y + animY, !.z = prop.z + animY]

\* the position part of the frame callback of a visible group
MeshFrame(mesh, prop, isFocused, animY) ==
    IF isFocused
    THEN [mesh EXCEPT !.y = MeshLerp(mesh.y, prop.y), !.z = prop.z]
    ELSE [mesh EXCEPT !.y = prop.y + animY, !.z = prop.z]

\* useFrame of the PhotoMesh of photo id
PhotoMeshFrame(id) ==
    /\ id \in DOMAIN meshes
    /\ visible(id)
    /\ \E animY \in AnimY :
          meshes' = [meshes EXCEPT
                        ![id] = MeshFrame(@, position(id), focusedPhotoId = id, animY)]
    /\ UNCHANGED <<sceneVars, repositoryVars, storageVars, pathVars, appVars, uiVars>>

\* the scene mounted with the photo list and the viewport it is given
Start(list, mobile) ==
    /\ photos = list
    /\ photoTransforms = PhotoTransformsOf(SortDesc(list))
    /\ focusedPhotoId = NULL
    /\ isAutoPlaying = FALSE
    /\ autoPlaySpeed = 3
    /\ isMobile = mobile
    /\ focusedPhotoIndexRef = -1
    /\ indexEffectDue = FALSE
    /\ autoDeps = [isAutoPlaying |-> FALSE, focusedPhotoId |-> NULL, autoPlaySpeed |-> 3]
    /\ autoPlayRef = NULL
    /\ rafQueue = {}
    /\ scrollTop = 0
    /\ lastTick = NoTick
    /\ camera = [x |-> 0, y |-> 0, z |-> 5 * Scale]
    /\ visibleIndices = {}
    /\ sinceVisibleUpdate = 0
    /\ setterCalls = FALSE
    /\ refreshed = FALSE
    /\ RepositoryStart
    /\ StorageStart
    /\ HookStart
    /\ pathArg = Finite(0)
    /\ pathResult = NoResult
    /\ meshes = LET sorted == SortDesc(list)
                     transforms == PhotoTransformsOf(sorted)
                 IN  [id \in {list[k].id : k \in 1..Len(list)} |->
                         [Mounted(PositionOf(sorted, transforms, id)) EXCEPT !.due = FALSE]]

Init == \E list \in PhotoLists, mobile \in BOOLEAN : Start(list, mobile)

\* ------------------------------------------------------------------------
\* Renders: the application passes new props
\* ------------------------------------------------------------------------
SetPhotos(list) ==
    /\ ~EffectsPending
    /\ list # photos
    /\ photos' = list
    /\ photoTransforms' = PhotoTransformsOf(SortDesc(list))
    /\ indexEffectDue' = TRUE
    /\ meshes' = CommitMeshes(list)
    /\ UNCHANGED <<focusedPhotoId, isAutoPlaying, autoPlaySpeed, isMobile,
                   focusedPhotoIndexRef, autoDeps, autoPlayRef, rafQueue,
                   scrollTop, lastTick, camera, visibleIndices, sinceVisibleUpdate,
                   setterCalls, refreshed, repositoryVars, storageVars, pathVars, appVars, uiVars>>

\* onFocusPhoto(photo.id) of a rendered photo, or the detail card closing
SetFocus(f) ==
    /\ ~EffectsPending
    /\ f # focusedPhotoId
    /\ f = NULL \/ HasId(photos, f)
    /\ focusedPhotoId' = f
    /\ indexEffectDue' = TRUE
    /\ UNCHANGED <<photos, photoTransforms, isAutoPlaying, autoPlaySpeed, isMobile,
                   focusedPhotoIndexRef, autoDeps, autoPlayRef, rafQueue,
                   scrollTop, lastTick, camera, visibleIndices, sinceVisibleUpdate,
                   setterCalls, refreshed, repositoryVars, storageVars, pathVars, meshVars, appVars, uiVars>>

\* onAutoPlayToggle
ToggleAutoPlay ==
    /\ ~EffectsPending
    /\ isAutoPlaying' = ~isAutoPlaying
    /\ UNCHANGED <<photos, photoTransforms, focusedPhotoId, autoPlaySpeed, isMobile,
                   focusedPhotoIndexRef, indexEffectDue, autoDeps, autoPlayRef, rafQueue,
                   scrollTop, lastTick, camera, visibleIndices, sinceVisibleUpdate,
                   setterCalls, refreshed, repositoryVars, storageVars, pathVars, meshVars, appVars, uiVars>>

\* onAutoPlaySpeedChange
SetSpeed(s) ==
    /\ ~EffectsPending
    /\ s # autoPlaySpeed
    /\ autoPlaySpeed' = s
    /\ UNCHANGED <<photos, photoTransforms, focusedPhotoId, isAutoPlaying, isMobile,
                   focusedPhotoIndexRef, indexEffectDue, autoDeps, autoPlayRef, rafQueue,
                   scrollTop, lastTick, camera, visibleIndices, sinceVisibleUpdate,
                   setterCalls, refreshed, repositoryVars, storageVars, pathVars, meshVars, appVars, uiVars>>

\* ------------------------------------------------------------------------
\* Effects of the committed render
\* ------------------------------------------------------------------------
\* the effect that caches the focused index
IndexEffect ==
    IF focusedPhotoId # NULL
    THEN FindIndex(sortedPhotos, focusedPhotoId)
    ELSE -1

\* the cleanup the previous autoplay effect returned (none after an early return)
AutoCleanup(deps, ref, queue) ==
    IF deps.isAutoPlaying /\ deps.focusedPhotoId = NULL /\ ref # NULL
    THEN [ref |-> NULL, queue |-> Cancel(queue, ref)]
    ELSE [ref |-> ref, queue |-> queue]

\* the body of the autoplay effect, run on the state the cleanup left
AutoEffect(c) ==
    IF ~isAutoPlaying \/ focusedPhotoId # NULL
    THEN IF c.ref # NULL
         THEN [ref |-> NULL, queue |-> Cancel(c.queue, c.ref)]
         ELSE c
    ELSE LET id == NewRequestId(c.queue, c.ref)
         IN  [ref |-> id,
              queue |-> c.queue \cup
                  {[id |-> id, speed |-> autoPlaySpeed, maxScroll |-> MaxScrollPx,
                    sinceLast |-> 0, elapsed |-> 0, fromZero |-> scrollTop = 0,
                    disturbed |-> FALSE,
                    isAutoPlaying |-> isAutoPlaying,
                    focusedPhotoId |-> focusedPhotoId]}]

FlushEffects ==
    /\ EffectsPending
    /\ focusedPhotoIndexRef' =
          IF indexEffectDue THEN IndexEffect ELSE focusedPhotoIndexRef
    /\ indexEffectDue' = FALSE
    /\ LET r == IF autoDeps # AutoDepsNow
                THEN AutoEffect(AutoCleanup(autoDeps, autoPlayRef, rafQueue))
                ELSE [ref |-> autoPlayRef, queue |-> rafQueue]
       IN  /\ autoPlayRef' = r.ref
           /\ rafQueue' = r.queue
           /\ lastTick' = IF r.queue \subseteq rafQueue THEN lastTick ELSE NoTick
    /\ autoDeps' = AutoDepsNow
    /\ meshes' = LET sorted == sortedPhotos
                  IN  [id \in DOMAIN meshes |->
                          ZEffect(meshes[id], PositionOf(sorted, photoTransforms, id))]
    /\ UNCHANGED <<photos, photoTransforms, focusedPhotoId, isAutoPlaying,
                   autoPlaySpeed, isMobile,
                   scrollTop, camera, visibleIndices, sinceVisibleUpdate,
                   setterCalls, refreshed, repositoryVars, storageVars, pathVars, appVars, uiVars>>

\* ------------------------------------------------------------------------
\* Time and the user
\* ------------------------------------------------------------------------
\* d milliseconds pass
Elapse(d) ==
    /\ \A h \in rafQueue : h.elapsed + h.sinceLast + d <= MaxElapsed
    /\ rafQueue' = {[h EXCEPT !.sinceLast = @ + d] : h \in rafQueue}
    /\ sinceVisibleUpdate' = Min(sinceVisibleUpdate + d, VisibleInterval + 1)
    /\ lastTick' = IF lastTick.ran
                   THEN [lastTick EXCEPT !.after = Min(@ + d, MaxElapsed)]
                   ELSE lastTick
    /\ UNCHANGED <<photos, photoTransforms, focusedPhotoId, isAutoPlaying,
                   autoPlaySpeed, isMobile,
                   focusedPhotoIndexRef, indexEffectDue, autoDeps, autoPlayRef,
                   scrollTop, camera, visibleIndices, setterCalls, refreshed, repositoryVars, storageVars, pathVars, meshVars, appVars, uiVars>>

\* the user scrolls the container to offset p
HumanScroll(p) ==
    /\ ScrollEnabled
    /\ p # scrollTop
    /\ scrollTop' = p
    /\ rafQueue' = {[h EXCEPT !.disturbed = TRUE] : h \in rafQueue}
    /\ UNCHANGED <<photos, photoTransforms, focusedPhotoId, isAutoPlaying,
                   autoPlaySpeed, isMobile,
                   focusedPhotoIndexRef, indexEffectDue, autoDeps, autoPlayRef,
                   lastTick, camera, visibleIndices, sinceVisibleUpdate, setterCalls,
                   refreshed, repositoryVars, storageVars, pathVars, meshVars, appVars, uiVars>>

\* ------------------------------------------------------------------------
\* The autoplay loop
\* ------------------------------------------------------------------------
\* ScrollDelta with a fixed step of 16 ms in place of deltaTime
ScrollDelta_FixedStep(h) == h.maxScroll * h.speed * 16

\* scrollDelta = maxScroll * autoPlaySpeed * deltaTime, in 1/ScrollScale pixel
ScrollDelta(h) == h.maxScroll * h.speed * h.sinceLast

\* newScrollTop
NewScrollTop(h, top) == Min(top + ScrollDelta(h), h.maxScroll * ScrollScale)

\* ReachedBottom with the threshold at half of the range
ReachedBottom_Halfway(h, newTop) == newTop >= (h.maxScroll \div 2) * ScrollScale

\* the loop stops at the bottom
ReachedBottom(h, newTop) == newTop >= (h.maxScroll - 1) * ScrollScale

\* animate(currentTime), the pending request h fires
Animate(h) ==
    /\ h \in rafQueue
    /\ h.sinceLast > 0
    /\ IF ~h.isAutoPlaying \/ h.focusedPhotoId # NULL
       THEN /\ rafQueue' = rafQueue \ {h}
            /\ UNCHANGED <<scrollTop, autoPlayRef, lastTick>>
       ELSE LET newTop == NewScrollTop(h, scrollTop)
                again  == ~ReachedBottom(h, newTop)
                rest   == rafQueue \ {h}
                id     == NewRequestId(rest, autoPlayRef)
            IN  /\ scrollTop' = newTop
                /\ rafQueue' =
                      IF again
                      THEN rest \cup {[h EXCEPT !.id = id, !.sinceLast = 0,
                                                !.elapsed = @ + h.sinceLast]}
                      ELSE rest
                /\ autoPlayRef' = IF again THEN id ELSE autoPlayRef
                /\ lastTick' =
                      [ran |-> TRUE, prevTop |-> scrollTop, top |-> newTop,
                       delta |-> h.sinceLast, speed |-> h.speed,
                       elapsed |-> h.elapsed + h.sinceLast, after |-> 0,
                       fromZero |-> h.fromZero, disturbed |-> h.disturbed,
                       rescheduled |-> again,
                       autoProp |-> isAutoPlaying, focusProp |-> focusedPhotoId]
    /\ UNCHANGED <<photos, photoTransforms, focusedPhotoId, isAutoPlaying,
                   autoPlaySpeed, isMobile,
                   focusedPhotoIndexRef, indexEffectDue, autoDeps,
                   camera, visibleIndices, sinceVisibleUpdate, setterCalls, refreshed, repositoryVars, storageVars, pathVars, meshVars, appVars, uiVars>>

\* ------------------------------------------------------------------------
\* The frame callback
\* ------------------------------------------------------------------------
\* Lerp whose result is dropped
Lerp_Dropped(from, to) == from

\* Vector3.lerp with alpha 0.08, one coordinate: from + (to - from) * 0.08,
\* rounded away from from, so that a coordinate off its target moves, as the
\* floating-point coordinate does
Lerp(from, to) ==
    IF to >= from
    THEN from + ((to - from) * 8 + 99) \div 100
    ELSE from - ((from - to) * 8 + 99) \div 100

LerpVec(p, t) == [x |-> Lerp(p.x, t.x), y |-> Lerp(p.y, t.y), z |-> Lerp(p.z, t.z)]

\* NextVisible without the buffer test behind the camera
NextVisible_NoBuffer(transforms, camZ) ==
    {i \in 0..(Len(transforms) - 1) :
        LET dist == transforms[i + 1].z - camZ
        IN  dist > -100 * Scale}

\* the indices the visibility refresh keeps
NextVisible(transforms, camZ) ==
    {i \in 0..(Len(transforms) - 1) :
        LET dist == transforms[i + 1].z - camZ
        IN  dist <= 5 * Scale /\ dist > -100 * Scale}

\* VisibleChanged that reports a change at every refresh
VisibleChanged_Always(nextVisible, current) == TRUE

\* does the refresh call setVisibleIndices(nextVisible)
VisibleChanged(nextVisible, current) ==
    \/ Cardinality(nextVisible) # Cardinality(current)
    \/ ~(\A idx \in nextVisible : idx \in current)

\* targetCamPos of the focused branch
FocusTarget(target, mobile) ==
    LET offsetX == IF mobile THEN 0 ELSE 5
        offsetY == IF mobile THEN 2 ELSE 0
        offsetZ == IF mobile THEN 18 ELSE 14
    IN  [x |-> target.x + offsetX * Scale,
         y |-> target.y - offsetY * Scale,
         z |-> target.z + offsetZ * Scale]

\* FreeTarget over the fixed tunnel depth instead of the depth budget
FreeTarget_FixedDepth(top, depth) ==
    LET targetZ == 10 * Scale - (top * (TUNNEL_DEPTH + 20)) \div (maxScrollTop \div Scale)
        pathOffset == getPathOffset(targetZ)
    IN  [x |-> pathOffset.x, y |-> pathOffset.y, z |-> targetZ]

\* targetPos of the free branch, for scroll.offset = top / maxScrollTop
FreeTarget(top, depth) ==
    LET targetZ == 10 * Scale - (top * (depth + 20)) \div (maxScrollTop \div Scale)
        pathOffset == getPathOffset(targetZ)
    IN  [x |-> pathOffset.x, y |-> pathOffset.y, z |-> targetZ]

\* CameraStep that falls back to the free branch when the index is unusable
CameraStep_FallsBack(cam) ==
    IF focusedPhotoId # NULL /\ focusedPhotoIndexRef # -1
                             /\ focusedPhotoIndexRef < Len(photoTransforms)
    THEN LerpVec(cam, FocusTarget(photoTransforms[focusedPhotoIndexRef + 1], isMobile))
    ELSE LerpVec(cam, FreeTarget(scrollTop, dynamicDepth))

\* the camera position the frame leaves
CameraStep(cam) ==
    IF focusedPhotoId # NULL
    THEN LET index == focusedPhotoIndexRef
         IN  IF index # -1 /\ index < Len(photoTransforms)
             THEN LerpVec(cam, FocusTarget(photoTransforms[index + 1], isMobile))
             ELSE cam
    ELSE LerpVec(cam, FreeTarget(scrollTop, dynamicDepth))

\* the throttle test passing as soon as the interval has elapsed
RefreshDue_AtInterval(since) == since >= VisibleInterval

\* now - lastVisibleUpdateRef.current > 0.08
RefreshDue(since) == since > VisibleInterval

Frame ==
    /\ IF RefreshDue(sinceVisibleUpdate)
       THEN LET nextVisible == NextVisible(photoTransforms, camera.z)
            IN  /\ sinceVisibleUpdate' = 0
                /\ refreshed' = TRUE
                /\ IF VisibleChanged(nextVisible, visibleIndices)
                   THEN visibleIndices' = nextVisible /\ setterCalls' = TRUE
                   ELSE UNCHANGED visibleIndices /\ setterCalls' = FALSE
       ELSE /\ UNCHANGED <<sinceVisibleUpdate, visibleIndices>>
            /\ setterCalls' = FALSE
            /\ refreshed' = FALSE
    /\ camera' = CameraStep(camera)
    /\ UNCHANGED <<photos, photoTransforms, focusedPhotoId, isAutoPlaying,
                   autoPlaySpeed, isMobile,
                   focusedPhotoIndexRef, indexEffectDue, autoDeps, autoPlayRef, rafQueue,
                   scrollTop, lastTick, repositoryVars, storageVars, pathVars, meshVars, appVars, uiVars>>

\* ------------------------------------------------------------------------
\* Specifications
\* ------------------------------------------------------------------------
\* the lists one change of the application away from list: a photo added
\* (setPhotos(prev => [...prev, ...newPhotos])), a photo removed (deleted or
\* filtered out), a photo edited (updatePhoto)
Without(list, k) == SubSeq(list, 1, k - 1) \o SubSeq(list, k + 1, Len(list))

Neighbours(list) ==
    {Append(list, p) : p \in {q \in Photo : Len(list) < MaxPhotos
                                                /\ ~HasId(list, q.id)}}
    \cup {Without(list, k) : k \in 1..Len(list)}
    \cup {[list EXCEPT ![k] = [@ EXCEPT !.timestamp = t, !.month = m]] :
             k \in 1..Len(list), t \in Stamps, m \in Months}

\* n photos, one per time stamp step, the months alternating
Timeline(n) ==
    [k \in 1..n |-> [id |-> k, timestamp |-> ((k - 1) % MaxStamp) + 1,
                     month |-> IF k % 2 = 1 THEN "Jan" ELSE "Feb", year |-> "2024"]]

\* the autoplay loop, the props that start and stop it, and the user
InitAutoplay == Start(Timeline(1), FALSE)

NextAutoplay ==
    \/ ToggleAutoPlay
    \/ \E s \in Speeds : SetSpeed(s)
    \/ \E f \in Ids \cup {NULL} : SetFocus(f)
    \/ FlushEffects
    \/ \E d \in TickDeltas : Elapse(d)
    \/ \E p \in ScrollPositions : HumanScroll(p)
    \/ \E h \in rafQueue : Animate(h)

SpecAutoplay == InitAutoplay /\ [][NextAutoplay]_vars

\* every operation of the scene over every photo list
\* the calls of the repository, in any interleaving
Batches == UNION {[1..n -> PhotoData] : n \in 1..MaxBatch}

NextRepositoryCalls ==
    \/ initialize
    \/ \E items \in Batches : add(items)
    \/ \E id \in RepoIds : remove(id)
    \/ clear
    \/ getAll
    \/ \E id \in RepoIds : getById(id)
    \/ \E id \in RepoIds, updates \in Updates : updateRead(id, updates)
    \/ \E u \in updating : updateWrite(u)
    \/ disposeRepository

\* the calls of the storage manager, in any interleaving
NextStorageCalls ==
    \/ \E slot \in Slots, op \in FileOps : Issue(slot, op)
    \/ \E slot \in Slots : InitializeDone(slot)
    \/ \E slot \in Slots : Delegate(slot)
    \/ DisposeCall
    \/ DisposeDone

\* the handlers of the application and the storage steps of the hook
NextAppCalls ==
    \/ \E photo \in Uploads : handleUpload(photo)
    \/ \E id \in RepoIds, updates \in HookUpdates : handleUpdate(id, updates)
    \/ \E id \in RepoIds \cup {NULL} : handleFocusPhoto(id)
    \/ \E id \in RepoIds : handleDelete(id)
    \/ handleDeleteFromDetail
    \/ \E query \in SearchQueries : setSearchQuery(query)
    \/ \E year \in YearChoices : setSelectedYear(year)
    \/ \E t \in tasks : addPhotosStep(t)
    \/ \E t \in tasks : updatePhotoStep(t)
    \/ \E t \in tasks : deletePhotoStep(t)

Next ==
    \/ \E list \in PhotoLists : SetPhotos(list)
    \/ \E f \in Ids \cup {NULL} : SetFocus(f)
    \/ ToggleAutoPlay
    \/ \E s \in Speeds : SetSpeed(s)
    \/ FlushEffects
    \/ \E d \in TickDeltas \cup FrameDeltas : Elapse(d)
    \/ \E p \in ScrollPositions : HumanScroll(p)
    \/ \E h \in rafQueue : Animate(h)
    \/ Frame
    \/ NextRepositoryCalls
    \/ NextStorageCalls
    \/ \E n \in {Finite(0), Infinity, NaN} : CallPathOffset(n)
    \/ \E id \in Ids : PhotoMeshFrame(id)
    \/ NextAppCalls

Spec == Init /\ [][Next]_vars

\* the lists the scene is shown with: short timelines and a long one
SceneLists == {Timeline(n) : n \in 0..MaxPhotos} \cup {Timeline(LongCount)}

\* a frame leaves the camera where it is
Settled == CameraStep(camera) = camera

\* the camera among renders, effects and scrolling: the frame callback runs
\* in every frame, the user acts once the camera has settled
InitCamera == \E list \in SceneLists, mobile \in BOOLEAN : Start(list, mobile)

NextCamera ==
    \/ \E f \in Ids \cup {NULL} : Settled /\ SetFocus(f)
    \/ \E list \in SceneLists : Settled /\ SetPhotos(list)
    \/ FlushEffects
    \/ \E p \in ScrollPositions : Settled /\ HumanScroll(p)
    \/ Frame

SpecCamera == InitCamera /\ [][NextCamera]_vars

\* the camera followed to rest over one list
InitConverge == \E mobile \in BOOLEAN : Start(Timeline(MaxPhotos), mobile)

NextConverge ==
    \/ \E f \in Ids \cup {NULL} : Settled /\ SetFocus(f)
    \/ FlushEffects
    \/ \E p \in ScrollPositions : Settled /\ HumanScroll(p)
    \/ Frame

SpecConverge == InitConverge /\ [][NextConverge]_vars /\ WF_vars(Frame)

\* the visibility refresh while the camera travels the tunnel in Free mode
InitVisible == \E list \in SceneLists : Start(list, FALSE)

NextTravel ==
    \/ \E list \in SceneLists : Settled /\ SetPhotos(list)
    \/ FlushEffects
    \/ \E p \in ScrollPositions : Settled /\ HumanScroll(p)
    \/ \E d \in FrameDeltas : Elapse(d)
    \/ Frame

SpecVisible == InitVisible /\ [][NextTravel]_vars

\* the throttle of the visibility refresh: frames 40 ms apart while the
\* camera travels past the photos, so that frames run with exactly the
\* interval elapsed as well as with less and with more
ThrottleDeltas == {VisibleInterval \div 2}

InitThrottle == Start(Timeline(MaxPhotos), FALSE)

NextThrottle ==
    \/ \E p \in ScrollPositions : Settled /\ HumanScroll(p)
    \/ \E d \in ThrottleDeltas : Elapse(d)
    \/ Frame

SpecThrottle == InitThrottle /\ [][NextThrottle]_vars

\* the layout of every photo list
InitLayout == \E list \in PhotoLists : Start(list, FALSE)

NextLayout ==
    \/ \E list \in Neighbours(photos) : SetPhotos(list)
    \/ FlushEffects

SpecLayout == InitLayout /\ [][NextLayout]_vars

\* The repository used as its tests and its callers use it: every call is
\* awaited, so no call starts while an update is between its read and write.
InitRepository == Start(<<>>, FALSE)

NextRepository ==
    \/ Quiet /\ initialize
    \/ Quiet /\ \E items \in Batches : add(items)
    \/ Quiet /\ \E id \in RepoIds : remove(id)
    \/ Quiet /\ clear
    \/ Quiet /\ getAll
    \/ Quiet /\ \E id \in RepoIds : getById(id)
    \/ Quiet /\ \E id \in RepoIds, updates \in Updates : updateRead(id, updates)
    \/ \E u \in updating : updateWrite(u)
    \/ Quiet /\ disposeRepository

SpecRepository == InitRepository /\ [][NextRepository]_vars

\* The storage manager with file operations issued concurrently and dispose
\* awaited: dispose is called when no call is in flight, and no operation is
\* issued while a dispose is in flight.
InitStorage == Start(<<>>, FALSE)

NextStorage ==
    \/ \E slot \in Slots, op \in FileOps : calls[DisposeSlot].pc = "idle" /\ Issue(slot, op)
    \/ \E slot \in Slots : InitializeDone(slot)
    \/ \E slot \in Slots : Delegate(slot)
    \/ StorageIdle /\ DisposeCall
    \/ DisposeDone

SpecStorage == InitStorage /\ [][NextStorage]_vars

\* getPathOffset called with the depths of the tunnel, with Infinity and with NaN
MaxDepthSample == 60
DepthSamples == {Finite(d * Scale) : d \in -MaxDepthSample..MaxDepthSample} \cup {Infinity, NaN}

InitPath == Start(<<>>, FALSE)

NextPath == \E n \in DepthSamples : CallPathOffset(n)

SpecPath == InitPath /\ [][NextPath]_vars

\* ------------------------------------------------------------------------
\* Layout claims
\* ------------------------------------------------------------------------
\* the largest item count the spacing is examined for
MaxCount == 40

\* C1: in the timestamp-descending order the depth strictly decreases with
\* the index: transform[i].z > transform[j].z for all i < j, and
\* z = -10 - i * spacing.
C1_DepthStrictlyDecreasing ==
    LET sorted == sortedPhotos
        t == photoTransforms
        spacing == Spacing(Len(photos))
    IN  /\ Len(t) = Len(photos)
        /\ \A i, j \in 1..Len(sorted) :
              i < j => /\ sorted[i].timestamp >= sorted[j].timestamp
                       /\ t[i].z > t[j].z
        /\ \A k \in 1..Len(t) : t[k].z = -10 * Scale - (k - 1) * spacing

\* a render with a changed list has just laid out three photos, not in
\* timestamp order
C1_Witness ==
    /\ indexEffectDue
    /\ Len(photos) >= 3
    /\ photos # sortedPhotos
    /\ photoTransforms[1].z > photoTransforms[3].z

\* C2: for every item count the spacing between consecutive transforms is
\* at most 15, no count makes the layout divide by zero, and a single item
\* gets the spacing 15.
C2_SpacingCapped ==
    LET t == photoTransforms
    IN  /\ \A n \in 0..MaxCount :
              /\ RawSpacing(n).finite
              /\ Spacing(n) <= 15 * Scale
              /\ n <= 1 => Spacing(n) = 15 * Scale
        /\ RawSpacing(Len(photos)).finite
        /\ \A k \in 1..(Len(t) - 1) : t[k].z - t[k + 1].z <= 15 * Scale

\* a render has just laid out a single photo
C2_Witness ==
    /\ indexEffectDue
    /\ Len(photos) = 1
    /\ Len(photoTransforms) = 1
    /\ Spacing(Len(photos)) = 15 * Scale

\* the indices (1-based) of sorted at which a run of equal keys starts
RunStarts(sorted) ==
    {k \in 1..Len(sorted) :
        k = 1 \/ GroupKey(sorted[k]) # GroupKey(sorted[k - 1])}

\* C3: there is one milestone per maximal run of equal group keys of the
\* sorted list, in run order, at the z of the first item of its run; items
\* that all share one key give exactly one milestone.
C3_MilestonePerRun ==
    LET sorted == sortedPhotos
        t == photoTransforms
        m == MilestonesOf(sorted)
        starts == RunStarts(sorted)
    IN  /\ Len(m) = Cardinality(starts)
        /\ \A j \in 1..Len(m) :
              \E k \in starts :
                  /\ Cardinality({s \in starts : s <= k}) = j
                  /\ m[j].z = t[k].z
                  /\ m[j].label = GroupKey(sorted[k])
        /\ (/\ Len(photos) > 0
            /\ \A k \in 1..Len(photos) : GroupKey(photos[k]) = GroupKey(photos[1]))
              => Len(m) = 1

\* a render has just laid out three photos in two runs
C3_Witness ==
    /\ indexEffectDue
    /\ Len(sortedPhotos) = 3
    /\ Len(milestones) = 2
    /\ GroupKey(sortedPhotos[2]) = GroupKey(sortedPhotos[3])

\* ------------------------------------------------------------------------
\* Autoplay claims
\* ------------------------------------------------------------------------
\* C4: progress has one writer at a time: while autoplay is enabled the
\* human scroll channel is disabled, and no state lets both the user and a
\* pending autoplay tick write the scroll offset.
C4_SingleWriter ==
    /\ isAutoPlaying => ~ScrollEnabled
    /\ ~(ScrollEnabled /\ rafQueue # {})

\* C5: once autoplay is disabled or the focus id is non-null, no autoplay
\* tick executes and writes the scroll offset: every tick that wrote ran
\* with autoplay enabled and the focus id null.
C5_NoTickAfterCancel ==
    lastTick.ran => (lastTick.autoProp /\ lastTick.focusProp = NULL)

\* the latest tick belongs to a loop started at offset 0 that no user scroll
\* has disturbed
FromZeroAlone == lastTick.ran /\ lastTick.fromZero /\ ~lastTick.disturbed

\* the time since that loop started has reached 1/speed and the loop has
\* consumed it: either the latest tick ran at that time or the loop has ended
FullTimePassed ==
    /\ (lastTick.elapsed + lastTick.after) * lastTick.speed >= 10 * 1000
    /\ lastTick.after = 0 \/ ~lastTick.rescheduled

\* C6 as stated: from offset 0 with no other writer, once the elapsed time
\* is at least 1/speed the offset equals maxScroll and no tick is scheduled.
C6_ReachesCeiling ==
    (FromZeroAlone /\ FullTimePassed)
        => (lastTick.top = maxScrollTop /\ ~lastTick.rescheduled)

\* C6 amended: from offset 0 with no other writer, once the elapsed time is
\* at least 1/speed the offset is within one pixel of maxScroll (exactly
\* maxScroll when a tick ran at such a time) and no tick is scheduled.
C6_WithinOnePixel ==
    /\ (FromZeroAlone /\ FullTimePassed)
          => (/\ lastTick.top >= maxScrollTop - ScrollScale
              /\ lastTick.top <= maxScrollTop
              /\ ~lastTick.rescheduled)
    /\ (FromZeroAlone /\ lastTick.elapsed * lastTick.speed >= 10 * 1000)
          => lastTick.top = maxScrollTop
    /\ (lastTick.ran /\ ~lastTick.rescheduled)
          => lastTick.top >= maxScrollTop - ScrollScale

C6_Witness ==
    /\ FromZeroAlone /\ FullTimePassed
    /\ lastTick.top < maxScrollTop
    /\ lastTick.after > 0
    /\ rafQueue = {}

\* C7: a tick that runs while autoplay is enabled and the focus id is null
\* adds speed * deltaTime of the range to the offset and clamps it: the
\* offset stays within [0, maxScroll] and does not decrease; from offset 0
\* with no other writer the offset after elapsed time t < 1/speed is
\* speed * t of the range.
C7_TickAdvances ==
    (lastTick.ran /\ lastTick.autoProp /\ lastTick.focusProp = NULL)
        => /\ lastTick.top =
                Min(lastTick.prevTop + MaxScrollPx * lastTick.speed * lastTick.delta,
                    maxScrollTop)
           /\ lastTick.top >= 0 /\ lastTick.top <= maxScrollTop
           /\ lastTick.top >= lastTick.prevTop
           /\ (FromZeroAlone /\ lastTick.elapsed * lastTick.speed < 10 * 1000)
                 => lastTick.top = MaxScrollPx * lastTick.speed * lastTick.elapsed

C7_Witness ==
    /\ FromZeroAlone
    /\ lastTick.autoProp /\ lastTick.focusProp = NULL
    /\ lastTick.elapsed > lastTick.delta
    /\ lastTick.elapsed * lastTick.speed < 10 * 1000
    /\ lastTick.top > lastTick.prevTop
    /\ lastTick.rescheduled

\* the focus id is set and no photo of the list has it
UnknownFocus == focusedPhotoId # NULL /\ ~HasId(photos, focusedPhotoId)

\* C8 as stated: when the focus id is non-null and matches no item of the
\* sorted list, the frame moves the camera as Free mode does, toward the
\* target derived from the scroll offset.
C8_UnknownFocusIsFree ==
    UnknownFocus
        => CameraStep(camera) = LerpVec(camera, FreeTarget(scrollTop, dynamicDepth))

\* the focus id is held on a photo of the list and the index effect has
\* resolved it
FocusHeld == focusedPhotoId # NULL /\ HasId(photos, focusedPhotoId) /\ ~indexEffectDue

\* the transform of photo f plus the fixed focus offset
FocusPoint(f) ==
    LET t == photoTransforms[FindIndex(sortedPhotos, f) + 1]
    IN  IF isMobile
        THEN [x |-> t.x, y |-> t.y - 2 * Scale, z |-> t.z + 18 * Scale]
        ELSE [x |-> t.x + 5 * Scale, y |-> t.y, z |-> t.z + 14 * Scale]

\* the Free-mode target of the current scroll offset
FreePoint ==
    LET z == 10 * Scale - (scrollTop * (dynamicDepth + 20)) \div (MaxScrollPx * Scale)
    IN  [x |-> getPathOffset(z).x, y |-> getPathOffset(z).y, z |-> z]

\* C9: while the focus id is held on a valid item the frames bring the
\* camera to that item's transform plus the focus offset; once the focus id
\* is null the frames bring it to the Free-mode target of the scroll offset.
C9_Converges ==
    /\ FocusHeld ~> (FocusHeld /\ camera = FocusPoint(focusedPhotoId))
    /\ (focusedPhotoId = NULL) ~> (focusedPhotoId = NULL /\ camera = FreePoint)

C9_Witness ==
    /\ FocusHeld
    /\ camera = FocusPoint(focusedPhotoId)
    /\ FindIndex(sortedPhotos, focusedPhotoId) > 0
    /\ scrollTop > 0

\* C10: right after a visibility refresh at camera depth camera.z, index i
\* is in the visible set iff transform[i].z - camera.z <= 5 and
\* transform[i].z - camera.z > -100.
C10_VisibleWindow ==
    [][(Frame /\ sinceVisibleUpdate > VisibleInterval)
          => \A i \in 0..(Len(photoTransforms) - 1) :
                i \in visibleIndices'
                    <=> /\ photoTransforms[i + 1].z - camera.z <= 5 * Scale
                        /\ photoTransforms[i + 1].z - camera.z > -100 * Scale]_vars

\* a refresh has just dropped the first photo, behind the camera, and the
\* last one, too far ahead, and kept photos between them
C10_Witness ==
    /\ sinceVisibleUpdate = 0
    /\ setterCalls
    /\ visibleIndices # {}
    /\ 0 \notin visibleIndices
    /\ (Len(photoTransforms) - 1) \notin visibleIndices
    /\ \A i \in visibleIndices : i < Len(photoTransforms)

\* ------------------------------------------------------------------------
\* Visibility and layout claims, continued
\* ------------------------------------------------------------------------
\* the indices within the window of camera depth camZ
InWindow(camZ) ==
    {i \in 0..(Len(photoTransforms) - 1) :
        /\ photoTransforms[i + 1].z - camZ <= 5 * Scale
        /\ photoTransforms[i + 1].z - camZ > -100 * Scale}

\* C11: a refresh that finds the members of the current visible set (as one
\* at unchanged camera depth and unchanged transforms does) leaves the
\* visible set as it is and does not call the state setter.
C11_SameSetNoSetter ==
    [][(Frame /\ sinceVisibleUpdate > VisibleInterval
              /\ InWindow(camera.z) = visibleIndices)
          => (visibleIndices' = visibleIndices /\ ~setterCalls')]_vars

\* a refresh has just run with the camera at rest and photos visible, and
\* has not called the setter
C11_Witness ==
    /\ refreshed
    /\ ~setterCalls
    /\ Settled
    /\ visibleIndices # {}
    /\ visibleIndices = InWindow(camera.z)

\* C12: with an empty item list the transform list and the milestone list
\* are empty and the frame moves the camera as Free mode does.
C12_EmptyListIsFree ==
    (Len(photos) = 0)
        => /\ photoTransforms = <<>>
           /\ milestones = <<>>
           /\ CameraStep(camera) = LerpVec(camera, FreePoint)

\* the orders a caller can hand the photos of list in
Reorderings(list) ==
    {[k \in 1..Len(list) |-> list[f[k]]] :
        f \in {g \in [1..Len(list) -> 1..Len(list)] :
                  \A a, b \in 1..Len(list) : a # b => g[a] # g[b]}}

\* C13: the layout does not depend on the order the caller hands the items
\* in: every reordering of the list puts the same item at every index of
\* the sorted list, so every transform and milestone goes to the same item.
C13_OrderIndependent ==
    \A other \in Reorderings(photos) :
        /\ SortDesc(other) = sortedPhotos
        /\ MilestonesOf(SortDesc(other)) = milestones

\* C14: the depth budget is capped: from some threshold count on, one more
\* item adds less than the maximum spacing to the budget, and the budget of
\* the current list is the budget of its count.
C14_DepthCapped ==
    /\ dynamicDepth = DynamicDepthOf(Len(photos))
    /\ \E threshold \in 0..(MaxCount - 1) :
          \A n \in threshold..(MaxCount - 1) :
              DynamicDepthOf(n + 1) - DynamicDepthOf(n) < maxSpacing

\* ------------------------------------------------------------------------
\* Persistence: the photo repository and the storage manager
\* ------------------------------------------------------------------------
\* the record the reference map holds for id, null when it holds none
ReferenceAt(id) ==
    IF \E r \in reference : r.id = id THEN CHOOSE r \in reference : r.id = id ELSE null

\* C15: after any completed sequence of add, remove and clear (and update)
\* calls, getAll returns exactly the records of the reference map keyed by
\* id, each once, and getById returns the reference record of a present id
\* and null for an absent one; the records are the photos without their file.
C15_MatchesReference ==
    /\ \A r1, r2 \in reference : r1.id = r2.id => r1 = r2
    /\ (lastResult.op = "getAll" /\ ~lastResult.threw) =>
          /\ {lastResult.value[k] : k \in 1..Len(lastResult.value)} = reference
          /\ Len(lastResult.value) = Cardinality(reference)
    /\ (lastResult.op = "getById" /\ ~lastResult.threw) =>
          lastResult.value = ReferenceAt(lastResult.id)

\* getAll has returned every id of the model, one of them with a title that
\* only a later add or update of the same id can have put there
C15_Witness ==
    /\ lastResult.op = "getAll"
    /\ ~lastResult.threw
    /\ Len(lastResult.value) = MaxRepoId
    /\ \E k \in 1..Len(lastResult.value) : lastResult.value[k].title = "b"
    /\ \E k \in 1..Len(lastResult.value) : lastResult.value[k].title = "a"

C17_LazyInitialization ==
    [][/\ \A slot \in Slots, op \in FileOps :
             (Issue(slot, op) /\ ~initialized) =>
                 /\ initializeCalls' = initializeCalls + 1
                 /\ calls'[slot].pc = "initialize"
                 /\ lastDelegated' = lastDelegated
       /\ \A slot \in Slots :
             (Delegate(slot) /\ calls[slot].lazy) =>
                 /\ initialized /\ providerDb
                 /\ initializeCalls > 0
                 /\ ~lastDelegated'.threw
       /\ DisposeDone => (~initialized' /\ ~providerDb')]_vars

\* an operation issued after a dispose has been delegated to the provider,
\* which had been initialized again for it
C17_Witness ==
    /\ disposed
    /\ lastDelegated.lazy
    /\ ~lastDelegated.threw
    /\ initialized /\ providerDb
    /\ initializeCalls > 0

\* ------------------------------------------------------------------------
\* The path function
\* ------------------------------------------------------------------------
\* C18: getPathOffset returns a finite x and a finite y for every finite
\* depth, and a NaN of the intermediate computation is returned as 0; no
\* call returns NaN or Infinity.
C18_PathOffsetFinite ==
    pathResult.returned =>
        /\ pathResult.x.finite /\ pathResult.y.finite
        /\ isNaN(RawPathX(pathArg)) => pathResult.x = Finite(0)
        /\ isNaN(RawPathY(pathArg)) => pathResult.y = Finite(0)
        /\ pathArg.finite => /\ pathResult.x = RawPathX(pathArg)
                             /\ pathResult.y = RawPathY(pathArg)
                             /\ pathResult.x.v = getPathOffset(pathArg.v).x
                             /\ pathResult.y.v = getPathOffset(pathArg.v).y

\* a call at a finite depth other than 0 has returned a non-zero offset
C18_Witness ==
    /\ pathResult.returned
    /\ pathArg.finite /\ pathArg.v < 0
    /\ pathResult.x.finite /\ pathResult.x.v # 0
    /\ pathResult.y.finite /\ pathResult.y.v # 0

\* ------------------------------------------------------------------------
\* The cached focused index and the throttle of the visibility refresh
\* ------------------------------------------------------------------------
\* a frame run in this state takes the focused branch and moves the camera
\* toward the transform at the cached index
FocusedUpdate ==
    /\ focusedPhotoId # NULL
    /\ focusedPhotoIndexRef # -1
    /\ focusedPhotoIndexRef < Len(photoTransforms)

\* the item the transform at the cached index belongs to is the focused one
TargetIsFocusedItem == sortedPhotos[focusedPhotoIndexRef + 1].id = focusedPhotoId

C20_Throttled ==
    [][Frame => /\ refreshed' <=> (sinceVisibleUpdate > VisibleInterval)
                /\ ~(sinceVisibleUpdate > VisibleInterval) =>
                       /\ visibleIndices' = visibleIndices
                       /\ sinceVisibleUpdate' = sinceVisibleUpdate
                       /\ ~setterCalls']_vars

\* exactly the interval has elapsed, the latest frame did not recompute, and
\* the set it kept is no longer the window of the camera depth
C20_Witness ==
    /\ sinceVisibleUpdate = VisibleInterval
    /\ ~refreshed
    /\ visibleIndices # {}
    /\ visibleIndices # InWindow(camera.z)

\* ------------------------------------------------------------------------
\* The stale index beyond the transforms
\* ------------------------------------------------------------------------
\* the focus id is set and the cached index is not below the array length
IndexBeyond == focusedPhotoId # NULL /\ focusedPhotoIndexRef >= Len(photoTransforms)

\* C21: with the focus id non-null and the cached index not smaller than the
\* length of the transforms, the frame leaves the camera where it is (no
\* transform is read); the test is made anew in every frame, so that once the
\* index is resolved within the array the frame moves the camera toward the
\* focused item.
C21_SkipsAndRetries ==
    /\ IndexBeyond => CameraStep(camera) = camera
    /\ FocusHeld => CameraStep(camera) = LerpVec(camera, FocusPoint(focusedPhotoId))

\* the list has shrunk below a cached index that pointed at a photo, with the
\* camera away from the Free-mode target
C21_Witness ==
    /\ IndexBeyond
    /\ focusedPhotoIndexRef > 0
    /\ photos # <<>>
    /\ camera # FreePoint


\* ------------------------------------------------------------------------
\* C22: the depth of a rendered item
\* ------------------------------------------------------------------------
\* the groups among renders, effects and frames: a long list loses a photo
\* from its middle and gets it back, the scene refreshes the visible set,
\* the newest photo is focused, visible groups animate
Newest == SortDesc(Timeline(LongCount))[1].id

MeshLists ==
    {Timeline(LongCount), Without(Timeline(LongCount), LongCount \div 2 + 1)}

InitMesh == Start(Timeline(LongCount), FALSE)

NextMesh ==
    \/ \E list \in MeshLists : Settled /\ SetPhotos(list)
    \/ \E f \in {Newest, NULL} : Settled /\ SetFocus(f)
    \/ FlushEffects
    \/ \E d \in FrameDeltas : Elapse(d)
    \/ Frame
    \/ \E id \in Ids : PhotoMeshFrame(id)

SpecMesh == InitMesh /\ [][NextMesh]_vars

\* C22: one group is rendered per photo of the list, and in every state its
\* depth coordinate is the z of its layout transform: after a frame that
\* animated it, focused or not, and after a commit that changed the
\* transform, whether the group is visible or not.
C22_DepthIsTransformZ ==
    LET sorted == sortedPhotos
    IN  /\ DOMAIN meshes = {photos[k].id : k \in 1..Len(photos)}
        /\ \A id \in DOMAIN meshes :
              meshes[id].z = photoTransforms[FindIndex(sorted, id) + 1].z

\* a group that is not visible had its transform z changed by the latest
\* commit, while a visible group is off its transform's y by the idle
\* animation
C22_Witness ==
    /\ \E id \in DOMAIN meshes : meshes[id].moved /\ ~visible(id)
    /\ \E id \in DOMAIN meshes : visible(id) /\ meshes[id].y # position(id).y


\* ------------------------------------------------------------------------
\* C23, C24: the storage steps of concurrent useStorage calls
\* ------------------------------------------------------------------------
\* the hook as the application uses it: the repository is initialized once,
\* photos are uploaded under fresh ids, uploaded photos are updated (by the
\* analysis or by the user) and displayed photos are deleted; no call is
\* awaited by its caller, so the storage steps interleave freely
InitHook == Start(<<>>, FALSE)

NextHook ==
    \/ initialize
    \/ \E photo \in Uploads : handleUpload(photo)
    \/ \E id \in RepoIds, updates \in HookUpdates :
          CallsFor(id) # <<>> /\ handleUpdate(id, updates)
    \/ \E id \in RepoIds : HasId(hookPhotos, id) /\ handleDelete(id)
    \/ \E t \in tasks : addPhotosStep(t)
    \/ \E t \in tasks : updatePhotoStep(t)
    \/ \E t \in tasks : deletePhotoStep(t)

SpecHook == InitHook /\ [][NextHook]_vars

\* every call made for id has completed
Completed(id) == \A t \in tasks : t.id # id

\* the in-memory photo of id
InMemory(id) == hookPhotos[CHOOSE k \in 1..Len(hookPhotos) : hookPhotos[k].id = id]

\* C23: once addPhotos for a photo and a later updatePhoto for the same id
\* (the only calls made for it) have both completed, the repository holds a
\* record for the id that equals the in-memory photo in every field but file.
C23_UpdatePersisted ==
    \A id \in RepoIds :
        CallsFor(id) = <<"addPhotos", "updatePhoto">> /\ Completed(id) =>
            /\ id \in DOMAIN store
            /\ \A k \in DOMAIN InMemory(id) \ {"file"} : store[id][k] = InMemory(id)[k]

\* C24: once deletePhoto(id) and the addPhotos call made for id before it
\* (the only calls made for it) have both completed, the repository holds
\* neither a record nor a blob for id.
C24_DeletedStaysDeleted ==
    \A id \in RepoIds :
        CallsFor(id) = <<"addPhotos", "deletePhoto">> /\ Completed(id) =>
            /\ id \notin DOMAIN store
            /\ id \notin blobs


\* ------------------------------------------------------------------------
\* C25: the focus against the filtered list
\* ------------------------------------------------------------------------
\* the application in use: uploads, focus requests from the scene and the
\* detail card, deletions, updates and filter changes. The storage steps of
\* a call touch neither the photos state nor the filters nor the focus, so
\* here they finish before the next handler runs.
InitApp == Start(<<>>, FALSE)

NextApp ==
    \/ initialize
    \/ \E photo \in Uploads : tasks = {} /\ handleUpload(photo)
    \/ \E id \in RepoIds, updates \in HookUpdates :
          tasks = {} /\ HasId(hookPhotos, id) /\ handleUpdate(id, updates)
    \/ \E id \in RepoIds \cup {NULL} : id # appFocusedPhotoId /\ handleFocusPhoto(id)
    \/ \E id \in RepoIds : tasks = {} /\ HasId(hookPhotos, id) /\ handleDelete(id)
    \/ tasks = {} /\ handleDeleteFromDetail
    \/ \E query \in SearchQueries : query # searchQuery /\ setSearchQuery(query)
    \/ \E year \in YearChoices : year # selectedYear /\ setSelectedYear(year)
    \/ \E t \in tasks : addPhotosStep(t)
    \/ \E t \in tasks : updatePhotoStep(t)
    \/ \E t \in tasks : deletePhotoStep(t)

SpecApp == InitApp /\ [][NextApp]_vars

\* C25: in every reachable state of the application a non-null
\* focusedPhotoId is the id of a photo of the filtered list passed to the
\* scene.
C25_FocusInFilteredList ==
    appFocusedPhotoId # NULL => HasId(filteredPhotos, appFocusedPhotoId)


\* ------------------------------------------------------------------------
\* C29: one autoplay loop at a time
\* ------------------------------------------------------------------------
\* C29: after any sequence of autoplay toggles, speed changes, focus
\* changes, scrolls and ticks at most one autoplay tick is pending, and an
\* effect run that starts a loop leaves its tick as the only pending one.
C29_OneTickPending ==
    /\ Cardinality(rafQueue) <= 1
    /\ \A h \in rafQueue : h.id = autoPlayRef

\* a loop restarted by a speed change while the earlier loop had scrolled:
\* its first tick is pending alone
C29_Witness ==
    /\ \E h \in rafQueue : h.elapsed = 0 /\ h.speed # 3 /\ ~h.fromZero
    /\ lastTick = NoTick
    /\ scrollTop > 0
    /\ isAutoPlaying


\* ------------------------------------------------------------------------
\* C26: autoplay reaches the end
\* ------------------------------------------------------------------------
\* the shortest time between two frames
LiveDeltas == {d \in TickDeltas : \A e \in TickDeltas : d <= e}

\* progress has reached the end of the path, to within the pixel at which
\* the loop stops
AtEnd == scrollTop >= (MaxScrollPx - 1) * ScrollScale

\* autoplay under fair scheduling: effects are flushed, time passes, and a
\* loop that has a frame pending again and again gets a frame fired (the
\* browser fires the pending callbacks at every frame, however often the
\* props restart the loop); the user toggles autoplay, changes the speed and the
\* focus at any time, and scrolls only while no tick is pending, so that no
\* scroll of the user works against a running loop
NextLive ==
    \/ ToggleAutoPlay
    \/ \E s \in Speeds : SetSpeed(s)
    \/ \E f \in Ids \cup {NULL} : SetFocus(f)
    \/ FlushEffects
    \/ \E d \in LiveDeltas : Elapse(d)
    \/ \E p \in ScrollPositions : rafQueue = {} /\ ~EffectsPending /\ HumanScroll(p)
    \/ \E h \in rafQueue : Animate(h)

SpecLive ==
    /\ InitAutoplay
    /\ [][NextLive]_vars
    /\ WF_vars(FlushEffects)
    /\ WF_vars(\E d \in LiveDeltas : Elapse(d))
    /\ SF_vars(\E h \in rafQueue : Animate(h))

\* C26: from every state in which autoplay is enabled, the focus id is null
\* and progress is below the end, progress eventually reaches the end,
\* unless autoplay is disabled or a photo is focused before.
C26_ReachesEnd ==
    (isAutoPlaying /\ focusedPhotoId = NULL /\ ~AtEnd)
        ~> (AtEnd \/ ~isAutoPlaying \/ focusedPhotoId # NULL)


\* ------------------------------------------------------------------------
\* C27: concurrent updates of one record
\* ------------------------------------------------------------------------
\* an update set that shares no field with the update sets of the calls in
\* flight for the same id
OtherFields(id, updates) ==
    \A u \in updating : u.id = id => DOMAIN u.updates \cap DOMAIN updates = {}

\* the repository with update calls that are not awaited: a call may start
\* while another is between its read and its write, as long as it names
\* other fields when it is for the same id; uploaded photos are added while
\* no update is in flight
InitConcurrent == Start(<<>>, FALSE)

NextConcurrent ==
    \/ Quiet /\ initialize
    \/ Quiet /\ \E photo \in Uploads : add(<<photo>>)
    \/ \E id \in RepoIds, updates \in HookUpdates :
          /\ OtherFields(id, updates)
          /\ Cardinality(updating) < MaxInFlight
          /\ updateRead(id, updates)
    \/ \E u \in updating : updateWrite(u)

SpecConcurrent == InitConcurrent /\ [][NextConcurrent]_vars

\* C27: once concurrent update calls for one existing id that name different
\* fields have all completed, the persisted record carries the fields of
\* every one of them: it is the record the reference holds, to which each
\* completed update's fields were applied.
C27_BothUpdatesPersisted ==
    Quiet => \A id \in DOMAIN store : store[id] = ReferenceAt(id)


\* ------------------------------------------------------------------------
\* C28: one initialization of the provider
\* ------------------------------------------------------------------------
\* C28: between construction (or the last dispose) and the next dispose of
\* the manager, provider.initialize() is invoked at most once, also when
\* several file operations are issued before the first initialization has
\* finished.
C28_InitializedOnce == initializeCalls <= 1


\* ------------------------------------------------------------------------
\* C30: every item can be scrolled into the visible window
\* ------------------------------------------------------------------------
MaxSteps == 20

\* the scroll offsets p * maxScrollTop for p = 0, 1/MaxSteps, ..., 1
ProgressSamples == {(k * maxScrollTop) \div MaxSteps : k \in 0..MaxSteps}

\* lists of every count up to MaxCount, scrolled to the sampled offsets
InitReach == \E n \in 1..MaxCount : Start(Timeline(n), FALSE)

NextReach == \E p \in ProgressSamples : HumanScroll(p)

SpecReach == InitReach /\ [][NextReach]_vars

\* the indices inside the visible window with the camera at the free-mode
\* target depth of scroll offset top
VisibleAt(top) == NextVisible(photoTransforms, FreeTarget(top, dynamicDepth).z)

\* C30: for every item count n >= 1 and every index i there is a traversal
\* progress p in [0,1] such that, with the camera at the free-mode target
\* depth 10 - p * (depthBudget + 20), -100 < transform[i].z - cameraZ <= 5.
C30_EveryItemReachable ==
    LET reachable == UNION {VisibleAt(top) : top \in ProgressSamples}
    IN  \A i \in 0..(Len(photoTransforms) - 1) : i \in reachable

\* a long list scrolled to where its last item is inside the window and its
\* first item is behind the camera
C30_Witness ==
    /\ Len(photos) = MaxCount
    /\ (Len(photoTransforms) - 1) \in VisibleAt(scrollTop)
    /\ 0 \notin VisibleAt(scrollTop)
    /\ 0 \in VisibleAt(0)
    /\ (Len(photoTransforms) - 1) \notin VisibleAt(0)

====
